---- MODULE Spec2Model ----
(***************************************************************************)
(* Model of the referral pipeline: time.py (cleaning, joins, local time),  *)
(* fraud_check.py (status/reward joins, flags, check_logic, report) and    *)
(* the helpers shared with timezone_cinversion.py.                         *)
(*                                                                         *)
(* Text is a sequence of one-character strings.  A scalar cell of a table  *)
(* is a record [kind, s, n]: kind "na" (NaN / None / pd.NA / NaT), "str"   *)
(* (text s), "int" (integer n), "float" (the float n.0), "bool" (n = 1 is  *)
(* True) or "ts" (a timestamp, n hours after the epoch; s is <<>> for a    *)
(* naive timestamp and the zone name for an aware one).                    *)
(***************************************************************************)
EXTENDS Integers, Sequences, FiniteSets, TLC

VARIABLES
    idRaw, idOnce, idTwice, idPc,      \* clean_id: raw cell, cleaned once, cleaned twice
    row, verdict, verdict2, lgPc,      \* check_logic: the flags of a row, its verdicts
    ts, tz, local, tlPc,               \* to_local: timestamp, zone, result
    source, category, scPc,            \* get_source_category: text, result
    pc,                                \* the pipeline: where time.main / fraud_check.main stand
    users,                             \* time.main: the user table in memory, ids cleaned
    df, cols,                          \* the working DataFrame and its column names
    cleaned,                           \* data_cleaned/referrals_cleaned.csv
    joinLog,                           \* one entry per merge: row counts before and after
    now,                               \* fraud_check.main: pd.Timestamp.now().normalize()
    report,                            \* data_cleaned/final_referral_report.csv
    earlier                            \* the date and the report of the run before this one

idVars == <<idRaw, idOnce, idTwice, idPc>>
lgVars == <<row, verdict, verdict2, lgPc>>
tlVars == <<ts, tz, local, tlPc>>
scVars == <<source, category, scPc>>
ppVars == <<pc, users, df, cols, cleaned, joinLog, now, report, earlier>>

vars == <<idRaw, idOnce, idTwice, idPc, row, verdict, verdict2, lgPc,
          ts, tz, local, tlPc, source, category, scPc,
          pc, users, df, cols, cleaned, joinLog, now, report, earlier>>

-----------------------------------------------------------------------------
(* Bounds *)

\* longest raw identifier text fed to clean_id
MaxIdLen == 5

\* most words in a referral source text
MaxWords == 3

\* latest hour of a timestamp fed to to_local
MaxHour == 30

\* most rows of user_referral.csv, user_logs.csv, paid_transactions.csv,
\* user_referral_statuses.csv and referral_rewards.csv
MaxRefRows == 1
MaxUserRows == 2
MaxTransRows == 2
MaxStatusRows == 2
MaxRewardRows == 2

-----------------------------------------------------------------------------
(* Scalars and text *)

NaVal == [kind |-> "na", s |-> <<>>, n |-> 0]
StrVal(t) == [kind |-> "str", s |-> t, n |-> 0]
IntVal(k) == [kind |-> "int", s |-> <<>>, n |-> k]
FloatVal(k) == [kind |-> "float", s |-> <<>>, n |-> k]
BoolVal(b) == [kind |-> "bool", s |-> <<>>, n |-> IF b THEN 1 ELSE 0]
TsVal(h, zone) == [kind |-> "ts", s |-> zone, n |-> h]

\* the text of a literal, one character per element
T_nan == <<"n", "a", "n">>
T_null == <<"n", "u", "l", "l">>
T_dot0 == <<".", "0">>
T_True == <<"T", "r", "u", "e">>
T_False == <<"F", "a", "l", "s", "e">>
T_true == <<"t", "r", "u", "e">>
T_false == <<"f", "a", "l", "s", "e">>
T_UTC == <<"U", "T", "C">>
T_Jakarta == <<"A", "s", "i", "a", "/", "J", "a", "k", "a", "r", "t", "a">>
T_Mars == <<"M", "a", "r", "s", "/", "B", "a", "s", "e">>
T_NaN == <<"N", "a", "N">>
T_Unknown == <<"U", "n", "k", "n", "o", "w", "n">>
T_NAN == <<"N", "A", "N">>

\* pd.isna on a scalar
pd_isna(val) == val.kind = "na"

\* str.lower, character by character
LowerChar(c) ==
    CASE c = "A" -> "a" [] c = "B" -> "b" [] c = "C" -> "c" [] c = "D" -> "d"
      [] c = "E" -> "e" [] c = "F" -> "f" [] c = "G" -> "g" [] c = "H" -> "h"
      [] c = "I" -> "i" [] c = "J" -> "j" [] c = "K" -> "k" [] c = "L" -> "l"
      [] c = "M" -> "m" [] c = "N" -> "n" [] c = "O" -> "o" [] c = "P" -> "p"
      [] c = "Q" -> "q" [] c = "R" -> "r" [] c = "S" -> "s" [] c = "T" -> "t"
      [] c = "U" -> "u" [] c = "V" -> "v" [] c = "W" -> "w" [] c = "X" -> "x"
      [] c = "Y" -> "y" [] c = "Z" -> "z"
      [] OTHER -> c

Lower(t) == [i \in 1..Len(t) |-> LowerChar(t[i])]

\* str.upper, character by character
UpperChar(c) ==
    CASE c = "a" -> "A" [] c = "b" -> "B" [] c = "c" -> "C" [] c = "d" -> "D"
      [] c = "e" -> "E" [] c = "f" -> "F" [] c = "g" -> "G" [] c = "h" -> "H"
      [] c = "i" -> "I" [] c = "j" -> "J" [] c = "k" -> "K" [] c = "l" -> "L"
      [] c = "m" -> "M" [] c = "n" -> "N" [] c = "o" -> "O" [] c = "p" -> "P"
      [] c = "q" -> "Q" [] c = "r" -> "R" [] c = "s" -> "S" [] c = "t" -> "T"
      [] c = "u" -> "U" [] c = "v" -> "V" [] c = "w" -> "W" [] c = "x" -> "X"
      [] c = "y" -> "Y" [] c = "z" -> "Z"
      [] OTHER -> c

Upper(t) == [i \in 1..Len(t) |-> UpperChar(t[i])]

\* decimal digits of a natural number
DigitChar(d) == <<"0", "1", "2", "3", "4", "5", "6", "7", "8", "9">>[d + 1]

RECURSIVE Digits(_)
Digits(k) == IF k < 10 THEN <<DigitChar(k)>> ELSE Digits(k \div 10) \o <<DigitChar(k % 10)>>

\* str(val) for the cells the pipeline converts (timestamps are never
\* converted to text by the modelled code)
str(val) ==
    CASE val.kind = "str" -> val.s
      [] val.kind = "int" -> Digits(val.n)
      [] val.kind = "float" -> Digits(val.n) \o T_dot0
      [] val.kind = "bool" -> IF val.n = 1 THEN T_True ELSE T_False
      [] OTHER -> T_nan

\* str.strip: drop leading and trailing blanks
RECURSIVE LStrip(_)
LStrip(t) == IF t # <<>> /\ Head(t) = " " THEN LStrip(Tail(t)) ELSE t

RECURSIVE RStrip(_)
RStrip(t) == IF t # <<>> /\ t[Len(t)] = " " THEN RStrip(SubSeq(t, 1, Len(t) - 1)) ELSE t

Strip(t) == RStrip(LStrip(t))

\* str.endswith
EndsWith(t, suf) ==
    /\ Len(t) >= Len(suf)
    /\ SubSeq(t, Len(t) - Len(suf) + 1, Len(t)) = suf

\* `x in s` for texts: x occurs in s as a contiguous run
Contains(t, x) == \E i \in 0..(Len(t) - Len(x)) : SubSeq(t, i + 1, i + Len(x)) = x

\* every text over chars of length at most k
TextsUpTo(chars, k) == UNION {[1..j -> chars] : j \in 0..k}

\* the concatenation of a sequence of texts
RECURSIVE Concat(_)
Concat(ws) == IF ws = <<>> THEN <<>> ELSE Head(ws) \o Concat(Tail(ws))

-----------------------------------------------------------------------------
(* clean_id (time.py, timezone_cinversion.py) *)

clean_id(val) ==
    IF pd_isna(val) \/ Lower(str(val)) \in {T_nan, T_null, <<>>}
    THEN NaVal
    ELSE LET t == Strip(str(val))
         IN  IF EndsWith(t, T_dot0) THEN StrVal(SubSeq(t, 1, Len(t) - 2)) ELSE StrVal(t)

-----------------------------------------------------------------------------
(* to_local (time.py, timezone_cinversion.py) *)

\* pytz.timezone(name): the zones this model knows, with their UTC offset in
\* hours; any other name raises UnknownTimeZoneError
KnownZones == {T_UTC, T_Jakarta}

ZoneOffset(name) == IF name = T_Jakarta THEN 7 ELSE 0

\* the `nan` test on the zone is exact instead of case-insensitive
to_local_exact_nan(t, z) ==
    IF pd_isna(t) \/ pd_isna(z) \/ str(z) = T_nan
    THEN NaVal
    ELSE IF str(z) \in KnownZones
         THEN TsVal(t.n + ZoneOffset(str(z)), <<>>)
         ELSE TsVal(t.n, <<>>)

\* a naive timestamp is localized to UTC first, so t.n is the UTC hour either
\* way; an unknown zone raises inside the try and the except branch returns
\* the timestamp with its zone dropped
to_local(t, z) ==
    IF pd_isna(t) \/ pd_isna(z) \/ Lower(str(z)) = T_nan
    THEN NaVal
    ELSE IF str(z) \in KnownZones
         THEN TsVal(t.n + ZoneOffset(str(z)), <<>>)
         ELSE TsVal(t.n, <<>>)

-----------------------------------------------------------------------------
(* get_source_category (fraud_check.py, timezone_cinversion.py) *)

OnlineKeywords == {<<"u", "s", "e", "r", " ", "s", "i", "g", "n", " ", "u", "p">>, <<"a", "p", "p">>, <<"w", "e", "b">>, <<"o", "n", "l", "i", "n", "e">>}

OfflineKeywords == {<<"d", "r", "a", "f", "t", " ", "t", "r", "a", "n", "s", "a", "c", "t", "i", "o", "n">>, <<"l", "e", "a", "d">>, <<"w", "a", "l", "k">>}

\* Offline tested before Online
get_source_category_offline_first(src) ==
    LET t == Lower(str(src))
    IN  IF \E x \in OfflineKeywords : Contains(t, x) THEN "Offline"
        ELSE IF \E x \in OnlineKeywords : Contains(t, x) THEN "Online"
        ELSE "Other"

get_source_category(src) ==
    LET t == Lower(str(src))
    IN  IF \E x \in OnlineKeywords : Contains(t, x) THEN "Online"
        ELSE IF \E x \in OfflineKeywords : Contains(t, x) THEN "Offline"
        ELSE "Other"

-----------------------------------------------------------------------------
(* check_logic (fraud_check.py) *)

FlagNames ==
    {"has_reward", "is_success", "is_pending_or_failed", "has_trans_id",
     "is_trans_paid", "is_trans_new", "tx_after_ref", "same_month",
     "is_member_active", "is_account_active", "is_granted"}

Rows == [FlagNames -> BOOLEAN]

NoFlags == [f \in FlagNames |-> FALSE]

\* rule 2 tested after the invalid rules instead of before them
check_logic_rule2_last(r) ==
    IF r["has_reward"] /\ r["is_success"] /\ r["has_trans_id"] /\ r["is_trans_paid"]
       /\ r["is_trans_new"] /\ r["tx_after_ref"] /\ r["same_month"]
       /\ r["is_member_active"] /\ r["is_account_active"] /\ r["is_granted"]
    THEN TRUE
    ELSE IF r["has_reward"] /\ ~r["is_success"] THEN FALSE
    ELSE IF r["has_reward"] /\ ~r["has_trans_id"] THEN FALSE
    ELSE IF ~r["has_reward"] /\ r["has_trans_id"] /\ r["is_trans_paid"] /\ r["tx_after_ref"]
    THEN FALSE
    ELSE IF r["is_success"] /\ ~r["has_reward"] THEN FALSE
    ELSE IF r["has_trans_id"] /\ ~r["tx_after_ref"] THEN FALSE
    ELSE IF r["is_pending_or_failed"] /\ ~r["has_reward"] THEN TRUE
    ELSE FALSE

\* rule 6 tested before rule 2 instead of after it
check_logic_rule6_before_rule2(r) ==
    IF r["has_reward"] /\ r["is_success"] /\ r["has_trans_id"] /\ r["is_trans_paid"]
       /\ r["is_trans_new"] /\ r["tx_after_ref"] /\ r["same_month"]
       /\ r["is_member_active"] /\ r["is_account_active"] /\ r["is_granted"]
    THEN TRUE
    ELSE IF r["is_success"] /\ ~r["has_reward"] THEN FALSE
    ELSE IF r["is_pending_or_failed"] /\ ~r["has_reward"] THEN TRUE
    ELSE IF r["has_reward"] /\ ~r["is_success"] THEN FALSE
    ELSE IF r["has_reward"] /\ ~r["has_trans_id"] THEN FALSE
    ELSE IF ~r["has_reward"] /\ r["has_trans_id"] /\ r["is_trans_paid"] /\ r["tx_after_ref"]
    THEN FALSE
    ELSE IF r["has_trans_id"] /\ ~r["tx_after_ref"] THEN FALSE
    ELSE FALSE

check_logic(r) ==
    IF r["has_reward"] /\ r["is_success"] /\ r["has_trans_id"] /\ r["is_trans_paid"]
       /\ r["is_trans_new"] /\ r["tx_after_ref"] /\ r["same_month"]
       /\ r["is_member_active"] /\ r["is_account_active"] /\ r["is_granted"]
    THEN TRUE
    ELSE IF r["is_pending_or_failed"] /\ ~r["has_reward"] THEN TRUE
    ELSE IF r["has_reward"] /\ ~r["is_success"] THEN FALSE
    ELSE IF r["has_reward"] /\ ~r["has_trans_id"] THEN FALSE
    ELSE IF ~r["has_reward"] /\ r["has_trans_id"] /\ r["is_trans_paid"] /\ r["tx_after_ref"]
    THEN FALSE
    ELSE IF r["is_success"] /\ ~r["has_reward"] THEN FALSE
    ELSE IF r["has_trans_id"] /\ ~r["tx_after_ref"] THEN FALSE
    ELSE FALSE

\* the conditions with rule 5 not asking for the absence of a reward
RuleCond_rule5_any_reward(k, r) ==
    CASE k = 1 -> /\ r["has_reward"] /\ r["is_success"] /\ r["has_trans_id"]
                  /\ r["is_trans_paid"] /\ r["is_trans_new"] /\ r["tx_after_ref"]
                  /\ r["same_month"] /\ r["is_member_active"]
                  /\ r["is_account_active"] /\ r["is_granted"]
      [] k = 2 -> r["is_pending_or_failed"] /\ ~r["has_reward"]
      [] k = 3 -> r["has_reward"] /\ ~r["is_success"]
      [] k = 4 -> r["has_reward"] /\ ~r["has_trans_id"]
      [] k = 5 -> r["has_trans_id"] /\ r["is_trans_paid"] /\ r["tx_after_ref"]
      [] k = 6 -> r["is_success"] /\ ~r["has_reward"]
      [] k = 7 -> r["has_trans_id"] /\ ~r["tx_after_ref"]
      [] OTHER -> TRUE

\* the condition of each `if` of check_logic, numbered as in the decision table;
\* rule 8 is the final `return False`
RuleCond(k, r) ==
    CASE k = 1 -> /\ r["has_reward"] /\ r["is_success"] /\ r["has_trans_id"]
                  /\ r["is_trans_paid"] /\ r["is_trans_new"] /\ r["tx_after_ref"]
                  /\ r["same_month"] /\ r["is_member_active"]
                  /\ r["is_account_active"] /\ r["is_granted"]
      [] k = 2 -> r["is_pending_or_failed"] /\ ~r["has_reward"]
      [] k = 3 -> r["has_reward"] /\ ~r["is_success"]
      [] k = 4 -> r["has_reward"] /\ ~r["has_trans_id"]
      [] k = 5 -> ~r["has_reward"] /\ r["has_trans_id"] /\ r["is_trans_paid"] /\ r["tx_after_ref"]
      [] k = 6 -> r["is_success"] /\ ~r["has_reward"]
      [] k = 7 -> r["has_trans_id"] /\ ~r["tx_after_ref"]
      [] OTHER -> TRUE

\* the value each rule returns
RuleVerdict(k) == k \in {1, 2}

Rules == 1..8

\* the rules that are the first whose condition holds
FirstRules(r) == {k \in Rules : RuleCond(k, r) /\ \A q \in 1..(k - 1) : ~RuleCond(q, r)}

-----------------------------------------------------------------------------
(* DataFrame operations: a table is a sequence of rows, a row a record of  *)
(* cells; the columns it has are tracked apart, in a set of column names   *)

\* two join keys match; pandas merge matches a missing key with a missing key
KeyEq(a, b) == IF pd_isna(a) \/ pd_isna(b) THEN pd_isna(a) /\ pd_isna(b) ELSE a = b

\* DataFrame.dropna(subset=[k])
dropna(rows, k) == SelectSeq(rows, LAMBDA r : ~pd_isna(r[k]))

RECURSIVE FirstOfEachKey(_, _, _)
FirstOfEachKey(rows, k, i) ==
    IF i > Len(rows) THEN <<>>
    ELSE (IF \E j \in 1..(i - 1) : KeyEq(rows[j][k], rows[i][k]) THEN <<>> ELSE <<rows[i]>>)
         \o FirstOfEachKey(rows, k, i + 1)

\* duplicates are kept
drop_duplicates_keeps_all(rows, k) == rows

\* DataFrame.drop_duplicates(subset=[k]): the first row of each key stays
drop_duplicates(rows, k) == FirstOfEachKey(rows, k, 1)

\* left.merge(right, left_on=lk, right_on=rk, how='left') as the sequence of
\* matched pairs: every left row in order, once per matching right row, and
\* once with `none` when no right row matches
RECURSIVE merge_left(_, _, _, _, _)
merge_left(left, right, lk, rk, none) ==
    IF left = <<>> THEN <<>>
    ELSE LET l == Head(left)
             m == SelectSeq(right, LAMBDA r : KeyEq(l[lk], r[rk]))
         IN  (IF m = <<>> THEN << <<l, none>> >> ELSE [j \in 1..Len(m) |-> <<l, m[j]>>])
             \o merge_left(Tail(left), right, lk, rk, none)

\* every table of at most k rows drawn from `rowset`
TablesUpTo(rowset, k) == UNION {[1..j -> rowset] : j \in 0..k}

\* str.title: a letter after a non-letter is upper-cased, any other lower-cased
IsLetter(c) == LowerChar(c) # UpperChar(c)

Title(t) ==
    [i \in 1..Len(t) |->
        IF i = 1 \/ ~IsLetter(t[i - 1]) THEN UpperChar(t[i]) ELSE LowerChar(t[i])]

\* the lambda of the initcap loop: only str cells are title-cased
initcap(val) == IF val.kind = "str" THEN StrVal(Title(val.s)) ELSE val

\* a cell written by to_csv and read back by read_csv: a missing cell is
\* written empty, and read_csv reads the texts of its na_values as missing
CsvNaTexts == {<<>>, T_nan, T_NaN, T_null, <<"N", "U", "L", "L">>, <<"N", "A">>, <<"N", "o", "n", "e">>}

CsvCell(val) ==
    IF pd_isna(val) \/ (val.kind = "str" /\ val.s \in CsvNaTexts) THEN NaVal ELSE val

\* text made of digits only, and the number it spells
IsDigits(t) == t # <<>> /\ \A i \in 1..Len(t) : t[i] \in {"0", "1", "2", "3", "4", "5", "6", "7", "8", "9"}

DigitValue(c) == CHOOSE d \in 0..9 : DigitChar(d) = c

RECURSIVE ParseNat(_)
ParseNat(t) == IF t = <<>> THEN 0 ELSE 10 * ParseNat(SubSeq(t, 1, Len(t) - 1)) + DigitValue(t[Len(t)])

\* read_csv's type inference on a column of texts: when every cell that is
\* not missing spells an integer the column is numeric, int64 without and
\* float64 with missing cells; otherwise the texts stay
CsvColumn(cells) ==
    LET back == [i \in 1..Len(cells) |-> CsvCell(cells[i])]
        numeric == \A i \in 1..Len(back) :
                      pd_isna(back[i]) \/ (back[i].kind = "str" /\ IsDigits(back[i].s))
        anyNa == \E i \in 1..Len(back) : pd_isna(back[i])
    IN  IF ~numeric THEN back
        ELSE [i \in 1..Len(back) |->
                IF pd_isna(back[i]) THEN NaVal
                ELSE IF anyNa THEN FloatVal(ParseNat(back[i].s))
                ELSE IntVal(ParseNat(back[i].s))]

-----------------------------------------------------------------------------
(* time.main and fraud_check.main, step by step *)

NoUser ==
    [user_id |-> NaVal, timezone_homeclub |-> NaVal,
     membership_expired_date |-> NaVal, is_deleted |-> NaVal]

NoTrans ==
    [transaction_id |-> NaVal, transaction_status |-> NaVal,
     transaction_type |-> NaVal, transaction_at |-> NaVal]

NoStatus == [id |-> NaVal, description |-> NaVal]

NoReward == [referral_id |-> NaVal, reward_value |-> NaVal, is_reward_granted |-> NaVal]

\* the columns user_referral.csv has
RefCols ==
    {"referral_id", "referrer_id", "referee_id", "transaction_id",
     "user_referral_status_id", "referral_at", "referral_source"}

\* a referral row as a row of the working DataFrame: the cells of columns
\* the DataFrame does not have (yet) are placeholders, never read
Enriched(r) ==
    [referral_id |-> r.referral_id, referrer_id |-> r.referrer_id,
     referee_id |-> r.referee_id, transaction_id |-> r.transaction_id,
     user_referral_status_id |-> r.user_referral_status_id,
     referral_at |-> r.referral_at, referral_source |-> r.referral_source,
     referrer_tz |-> NaVal, referrer_expiry |-> NaVal, referrer_deleted |-> NaVal,
     referee_tz |-> NaVal, final_tz |-> NaVal,
     transaction_status |-> NaVal, transaction_type |-> NaVal, transaction_at |-> NaVal,
     referral_at_local |-> NaVal, transaction_at_local |-> NaVal,
     referral_source_category |-> "none", status_name |-> NaVal,
     reward_value |-> NaVal, is_reward_granted |-> NaVal,
     flags |-> NoFlags, is_business_logic_valid |-> FALSE]

\* time.py step 2: clean_id on the id columns of the referral table
clean_ref(ref) ==
    [i \in 1..Len(ref) |->
        [ref[i] EXCEPT !.referrer_id = clean_id(@), !.referee_id = clean_id(@),
                       !.transaction_id = clean_id(@)]]

clean_users(us) == [i \in 1..Len(us) |-> [us[i] EXCEPT !.user_id = clean_id(@)]]

clean_trans(tr) == [i \in 1..Len(tr) |-> [tr[i] EXCEPT !.transaction_id = clean_id(@)]]

\* time.py: one row per user_id, the first one in the log
tz_map(us) == drop_duplicates(dropna(us, "user_id"), "user_id")

\* timezone_cinversion.py: users[['user_id', 'timezone_homeclub']].dropna()
\* .drop_duplicates(): rows with id and timezone, each (id, timezone) once
RECURSIVE FirstOfEachPair(_, _)
FirstOfEachPair(rows, i) ==
    IF i > Len(rows) THEN <<>>
    ELSE (IF \E j \in 1..(i - 1) :
                /\ rows[j].user_id = rows[i].user_id
                /\ rows[j].timezone_homeclub = rows[i].timezone_homeclub
          THEN <<>> ELSE <<rows[i]>>)
         \o FirstOfEachPair(rows, i + 1)

tz_map_conversion(us) == FirstOfEachPair(dropna(dropna(us, "user_id"), "timezone_homeclub"), 1)

\* time.py: merge for the referrer, with its renames
merge_referrer(ref, tzm) ==
    LET ps == merge_left(ref, tzm, "referrer_id", "user_id", NoUser)
    IN  [i \in 1..Len(ps) |->
            [ps[i][1] EXCEPT !.referrer_tz = ps[i][2].timezone_homeclub,
                             !.referrer_expiry = ps[i][2].membership_expired_date,
                             !.referrer_deleted = ps[i][2].is_deleted]]

\* time.py: merge for the referee
merge_referee(ref, tzm) ==
    LET ps == merge_left(ref, tzm, "referee_id", "user_id", NoUser)
    IN  [i \in 1..Len(ps) |-> [ps[i][1] EXCEPT !.referee_tz = ps[i][2].timezone_homeclub]]

\* timezone_cinversion.py step 5 cleans the two user ids only
clean_ref_users(ref) ==
    [i \in 1..Len(ref) |->
        [ref[i] EXCEPT !.referrer_id = clean_id(@), !.referee_id = clean_id(@)]]

\* ref['referrer_tz'].fillna(ref['referee_tz'])
fill_final_tz(ref) ==
    [i \in 1..Len(ref) |->
        [ref[i] EXCEPT !.final_tz =
            IF pd_isna(ref[i].referrer_tz) THEN ref[i].referee_tz ELSE ref[i].referrer_tz]]

\* time.py: merge of the transactions
merge_trans(ref, tr) ==
    LET ps == merge_left(ref, tr, "transaction_id", "transaction_id", NoTrans)
    IN  [i \in 1..Len(ps) |->
            [ps[i][1] EXCEPT !.transaction_status = ps[i][2].transaction_status,
                             !.transaction_type = ps[i][2].transaction_type,
                             !.transaction_at = ps[i][2].transaction_at]]

\* pd.to_datetime(col, utc=True): a timestamp becomes aware, in UTC
to_datetime_utc(val) == IF val.kind = "ts" THEN TsVal(val.n, T_UTC) ELSE NaVal

\* time.py step 5
time_conversion(ref, cs) ==
    [i \in 1..Len(ref) |->
        LET r == [ref[i] EXCEPT !.referral_at = to_datetime_utc(@)]
            r2 == [r EXCEPT !.referral_at_local = to_local(r.referral_at, r.final_tz)]
        IN  IF "transaction_at" \in cs
            THEN LET r3 == [r2 EXCEPT !.transaction_at = to_datetime_utc(@)]
                 IN  [r3 EXCEPT !.transaction_at_local = to_local(r3.transaction_at, r3.final_tz)]
            ELSE r2]

\* time.py step 6: of the modelled text columns only referral_source and
\* transaction_type have a name without 'id', 'date', 'club', 'at', 'tz'
initcap_columns(ref, cs) ==
    [i \in 1..Len(ref) |->
        [ref[i] EXCEPT !.referral_source = initcap(@),
                       !.transaction_type = IF "transaction_type" \in cs THEN initcap(@) ELSE @]]

\* timezone_cinversion.py steps 5-7 on one merged row: local time, initcap of
\* the text columns without 'id' or 'club' in their name, category
convert_row(r) ==
    LET r1 == [r EXCEPT !.referral_at = to_datetime_utc(@)]
        r2 == [r1 EXCEPT !.referral_at_local = to_local(r1.referral_at, r1.final_tz)]
        r3 == [r2 EXCEPT !.referral_source = initcap(@), !.referrer_tz = initcap(@),
                         !.referee_tz = initcap(@), !.final_tz = initcap(@)]
    IN  [r3 EXCEPT !.referral_source_category = get_source_category(r3.referral_source)]

\* pd.read_csv(DATA_CLEAN) of what to_csv wrote: identifiers go through the
\* type inference, text cells through the na_values; timestamps, booleans
\* and numbers come back as they were written
Column(rows, c) == [i \in 1..Len(rows) |-> rows[i][c]]

read_cleaned(rows) ==
    LET referrer == CsvColumn(Column(rows, "referrer_id"))
        referee == CsvColumn(Column(rows, "referee_id"))
        trans == CsvColumn(Column(rows, "transaction_id"))
    IN  [i \in 1..Len(rows) |->
            [rows[i] EXCEPT !.referrer_id = referrer[i], !.referee_id = referee[i],
                            !.transaction_id = trans[i],
                            !.referral_source = CsvCell(@),
                            !.referrer_tz = CsvCell(@), !.referee_tz = CsvCell(@),
                            !.final_tz = CsvCell(@),
                            !.transaction_status = CsvCell(@),
                            !.transaction_type = CsvCell(@)]]

\* fraud_check.py: the category column is rebuilt when the file lacks it
add_category(rows, cs) ==
    IF "referral_source_category" \in cs THEN rows
    ELSE [i \in 1..Len(rows) |->
            [rows[i] EXCEPT !.referral_source_category =
                IF "referral_source" \in cs THEN get_source_category(rows[i].referral_source)
                ELSE "Unknown"]]

\* fraud_check.py step 2
merge_status(rows, st) ==
    LET ps == merge_left(rows, st, "user_referral_status_id", "id", NoStatus)
    IN  [i \in 1..Len(ps) |-> [ps[i][1] EXCEPT !.status_name = ps[i][2].description]]

\* fraud_check.py step 3: duplicates of the join key are dropped, then merged
merge_rewards(rows, rw) ==
    LET ps == merge_left(rows, drop_duplicates(rw, "referral_id"), "referral_id",
                         "referral_id", NoReward)
    IN  [i \in 1..Len(ps) |->
            [ps[i][1] EXCEPT !.reward_value = ps[i][2].reward_value,
                             !.is_reward_granted = ps[i][2].is_reward_granted]]

\* Series.astype(str).str.contains(pattern, case=False) for a pattern that is
\* an alternation of literal words
contains_any(val, words) == \E x \in words : Contains(Lower(str(val)), Lower(x))

SuccessWords == {<<"B", "e", "r", "h", "a", "s", "i", "l">>, <<"S", "u", "c", "c", "e", "s", "s">>}

PendingWords == {<<"M", "e", "n", "u", "n", "g", "g", "u">>, <<"T", "i", "d", "a", "k">>, <<"F", "a", "i", "l">>, <<"P", "e", "n", "d", "i", "n", "g">>}

\* a comparison of two timestamps; with a missing side it is False
ts_ge(a, b) == a.kind = "ts" /\ b.kind = "ts" /\ a.n >= b.n

\* dt.to_period('M') of a timestamp counted in hours, in months of 30 days
Month(h) == h \div 720

\* Series == False / == True on a cell
eq_bool(val, b) ==
    \/ val.kind = "bool" /\ val.n = (IF b THEN 1 ELSE 0)
    \/ val.kind \in {"int", "float"} /\ val.n = (IF b THEN 1 ELSE 0)

\* fraud_check.py, User Checks: is_account_active
account_active(val, cs) ==
    IF "referrer_deleted" \in cs
    THEN eq_bool(val, FALSE) \/ Lower(str(val)) = T_false
    ELSE TRUE

\* the flags with the membership test reversed: active once the date has
\* passed the expiry date
row_flags_expiry_reversed(r, cs, today) ==
    [has_reward |-> r.reward_value.n > 0,
     is_success |-> contains_any(r.status_name, SuccessWords),
     is_pending_or_failed |-> contains_any(r.status_name, PendingWords),
     has_trans_id |-> ~pd_isna(r.transaction_id) /\ str(r.transaction_id) # T_nan,
     is_trans_paid |-> Upper(str(r.transaction_status)) = <<"P", "A", "I", "D">>,
     is_trans_new |-> Upper(str(r.transaction_type)) = <<"N", "E", "W">>,
     tx_after_ref |-> ts_ge(r.transaction_at_local, r.referral_at_local),
     same_month |-> /\ r.transaction_at_local.kind = "ts"
                    /\ r.referral_at_local.kind = "ts"
                    /\ Month(r.transaction_at_local.n) = Month(r.referral_at_local.n),
     is_member_active |-> IF "referrer_expiry" \in cs THEN ts_ge(today, r.referrer_expiry)
                          ELSE FALSE,
     is_account_active |-> account_active(r.referrer_deleted, cs),
     is_granted |-> IF "is_reward_granted" \in cs
                    THEN eq_bool(r.is_reward_granted, TRUE)
                         \/ Lower(str(r.is_reward_granted)) = T_true
                    ELSE FALSE]

\* fraud_check.py step 4, the Logic Flags of one row; `cs` has the columns
\* the flags read
row_flags(r, cs, today) ==
    [has_reward |-> r.reward_value.n > 0,
     is_success |-> contains_any(r.status_name, SuccessWords),
     is_pending_or_failed |-> contains_any(r.status_name, PendingWords),
     has_trans_id |-> ~pd_isna(r.transaction_id) /\ str(r.transaction_id) # T_nan,
     is_trans_paid |-> Upper(str(r.transaction_status)) = <<"P", "A", "I", "D">>,
     is_trans_new |-> Upper(str(r.transaction_type)) = <<"N", "E", "W">>,
     tx_after_ref |-> ts_ge(r.transaction_at_local, r.referral_at_local),
     same_month |-> /\ r.transaction_at_local.kind = "ts"
                    /\ r.referral_at_local.kind = "ts"
                    /\ Month(r.transaction_at_local.n) = Month(r.referral_at_local.n),
     is_member_active |-> IF "referrer_expiry" \in cs THEN ts_ge(r.referrer_expiry, today)
                          ELSE FALSE,
     is_account_active |-> account_active(r.referrer_deleted, cs),
     is_granted |-> IF "is_reward_granted" \in cs
                    THEN eq_bool(r.is_reward_granted, TRUE)
                         \/ Lower(str(r.is_reward_granted)) = T_true
                    ELSE FALSE]

\* the columns the flag computation indexes without a guard
FlagCols == {"transaction_id", "transaction_status", "transaction_type",
             "transaction_at_local", "referral_at_local"}

\* first value of the synthetic referral_details_id
FirstDetailsId == 101

\* fraud_check.py step 5: a row with its flags and its verdict
judge_row(r, cs, today) ==
    LET f == row_flags(r, cs, today)
    IN  [r EXCEPT !.flags = f, !.is_business_logic_valid = check_logic(f)]

\* fraud_check.py step 6: the rows of the final report; the DataFrame has
\* no `id` column, so referral_details_id is the synthetic sequence
final_df(rows) ==
    [i \in 1..Len(rows) |->
        LET r == rows[i]
        IN  [referral_details_id |-> IntVal(FirstDetailsId + i - 1),
             referral_id |-> r.referral_id,
             referral_source_category |-> r.referral_source_category,
             referral_at |-> r.referral_at_local,
             referrer_id |-> r.referrer_id,
             referee_id |-> r.referee_id,
             is_business_logic_valid |-> r.is_business_logic_valid]]

-----------------------------------------------------------------------------
(* Inputs *)

\* raw identifier cells: missing, numbers, and every text up to MaxIdLen
IdChars == {" ", ".", "0", "1", "n", "a", "N", "u", "l"}

IdNumbers == {0, 1, 10, 11}

RawIdVals ==
    {NaVal} \cup {StrVal(t) : t \in TextsUpTo(IdChars, MaxIdLen)}
            \cup {IntVal(k) : k \in IdNumbers} \cup {FloatVal(k) : k \in IdNumbers}

\* timestamps and zone cells given to to_local
TsInputs ==
    {NaVal} \cup {TsVal(h, zone) : h \in 0..MaxHour, zone \in {<<>>, T_UTC}}

TzInputs ==
    {NaVal, FloatVal(7)} \cup
    {StrVal(t) : t \in {T_nan, T_NaN, T_NAN, T_UTC, T_Jakarta, T_Mars, <<>>}}

\* referral source texts: up to MaxWords words, and a missing cell
SourceWords ==
    {<<"U", "s", "e", "r", " ", "S", "i", "g", "n", " ", "U", "p">>, <<"A", "p", "p">>, <<"W", "E", "B">>, <<"w", "e">>, <<"b">>, <<"o", "n", "l", "i", "n", "e">>, <<"D", "r", "a", "f", "t", " ", "T", "r", "a", "n", "s", "a", "c", "t", "i", "o", "n">>,
     <<"L", "e", "a", "d">>, <<"w", "a", "l", "k">>, <<" ">>, <<"R", "e", "f", "e", "r", "r", "a", "l", " ", "C", "o", "d", "e">>}

SourceInputs ==
    {NaVal} \cup
    {StrVal(Concat(ws)) : ws \in UNION {[1..k -> SourceWords] : k \in 0..MaxWords}}

\* user_referral.csv: a referral by user 1 (read as the float 1.0) or by
\* nobody, of user 2, with or without a transaction id; one has no referral_id
RefRowSet ==
    [referral_id : {StrVal(<<"r">>)},
     referrer_id : {FloatVal(1), NaVal},
     referee_id : {StrVal(<<"2">>)},
     transaction_id : {StrVal(<<"7">>), NaVal},
     user_referral_status_id : {IntVal(1)},
     referral_at : {TsVal(715, <<>>)},
     referral_source : {StrVal(<<"A", "p", "p", " ", "L", "e", "a", "d">>)}]
    \cup
    [referral_id : {NaVal},
     referrer_id : {FloatVal(1)},
     referee_id : {StrVal(<<"2">>)},
     transaction_id : {StrVal(<<"7">>)},
     user_referral_status_id : {IntVal(1)},
     referral_at : {TsVal(715, <<>>)},
     referral_source : {StrVal(<<"A", "p", "p", " ", "L", "e", "a", "d">>)}]

RefFiles == TablesUpTo(RefRowSet, MaxRefRows) \ {<<>>}

\* user_logs.csv: log rows of user 1 with and without timezone, deleted or
\* not; a row of user 2; a row without id.  A user may have several rows
UserRowSet ==
    [user_id : {IntVal(1)}, timezone_homeclub : {NaVal, StrVal(T_Jakarta)},
     membership_expired_date : {TsVal(1000, <<>>)}, is_deleted : {BoolVal(TRUE), BoolVal(FALSE)}]
    \cup
    [user_id : {StrVal(<<"2">>), NaVal}, timezone_homeclub : {StrVal(T_UTC)},
     membership_expired_date : {TsVal(1000, <<>>)}, is_deleted : {BoolVal(FALSE)}]

\* the user log has at least one row
UserFiles == TablesUpTo(UserRowSet, MaxUserRows) \ {<<>>}

\* paid_transactions.csv, which may be absent
TransRowSet ==
    {[transaction_id |-> v[1], transaction_status |-> StrVal(<<"P", "A", "I", "D">>),
      transaction_type |-> StrVal(<<"N", "E", "W">>), transaction_at |-> TsVal(v[2], <<>>)] :
        v \in {<<IntVal(7), 700>>, <<IntVal(7), 718>>, <<NaVal, 718>>}}

TransFiles ==
    {[exists |-> FALSE, rows |-> <<>>]} \cup
    {[exists |-> TRUE, rows |-> t] : t \in TablesUpTo(TransRowSet, MaxTransRows)}

\* user_referral_statuses.csv, which may be absent or lack `description`
StatusRowSet ==
    [id : {IntVal(1)},
     description : {StrVal(<<"B", "e", "r", "h", "a", "s", "i", "l">>), StrVal(<<"M", "e", "n", "u", "n", "g", "g", "u">>), StrVal(<<"T", "i", "d", "a", "k", " ", "B", "e", "r", "h", "a", "s", "i", "l">>)}]

StatusFiles ==
    {[exists |-> FALSE, described |-> FALSE, rows |-> <<>>],
     [exists |-> TRUE, described |-> FALSE, rows |-> <<>>]} \cup
    {[exists |-> TRUE, described |-> TRUE, rows |-> t] :
        t \in TablesUpTo(StatusRowSet, MaxStatusRows) \ {<<>>}}

\* referral_rewards.csv, which may be absent; its key column is named
\* referral_id or user_referral_id
RewardRowSet ==
    {[referral_id |-> k, reward_value |-> IntVal(v[1]), is_reward_granted |-> BoolVal(v[2])] :
        k \in {StrVal(<<"r">>), NaVal}, v \in {<<0, FALSE>>, <<50, TRUE>>}}

RewardFiles ==
    {[exists |-> FALSE, key |-> "referral_id", rows |-> <<>>]} \cup
    {[exists |-> TRUE, key |-> k, rows |-> t] :
        k \in {"referral_id", "user_referral_id"},
        t \in TablesUpTo(RewardRowSet, MaxRewardRows) \ {<<>>}}

\* one file of each other table, for the runs that explore the rewards
SampleUserFiles ==
    {<<[user_id |-> StrVal(<<"2">>), timezone_homeclub |-> StrVal(T_UTC),
        membership_expired_date |-> TsVal(1000, <<>>), is_deleted |-> BoolVal(FALSE)]>>,
     <<[user_id |-> IntVal(1), timezone_homeclub |-> StrVal(T_Jakarta),
        membership_expired_date |-> TsVal(1000, <<>>), is_deleted |-> BoolVal(FALSE)]>>}

SampleTransFiles ==
    {[exists |-> FALSE, rows |-> <<>>],
     [exists |-> TRUE,
      rows |-> <<[transaction_id |-> IntVal(7), transaction_status |-> StrVal(<<"P", "A", "I", "D">>),
                  transaction_type |-> StrVal(<<"N", "E", "W">>), transaction_at |-> TsVal(718, <<>>)]>>]}

SampleStatusFiles ==
    {[exists |-> FALSE, described |-> FALSE, rows |-> <<>>],
     [exists |-> TRUE, described |-> TRUE,
      rows |-> <<[id |-> IntVal(1), description |-> StrVal(<<"B", "e", "r", "h", "a", "s", "i", "l">>)]>>]}

\* the dates fraud_check.main may run on, before and after the expiry date
NowDates == {TsVal(960, <<>>), TsVal(1080, <<>>)}

\* the dates of a run and of a later or earlier run on the same files
RerunDates == NowDates \cup {TsVal(984, <<>>), TsVal(1008, <<>>)}

\* status and reward files for the runs that are repeated on another date
RerunStatusFiles ==
    SampleStatusFiles \cup
    {[exists |-> TRUE, described |-> TRUE, rows |-> <<[id |-> IntVal(1), description |-> StrVal(d)]>>] :
        d \in {<<"M", "e", "n", "u", "n", "g", "g", "u">>, <<"T", "i", "d", "a", "k", " ", "B", "e", "r", "h", "a", "s", "i", "l">>}}

RerunRewardFiles ==
    {[exists |-> FALSE, key |-> "referral_id", rows |-> <<>>]} \cup
    {[exists |-> TRUE, key |-> "referral_id",
      rows |-> <<[referral_id |-> StrVal(<<"r">>), reward_value |-> IntVal(v[1]),
                  is_reward_granted |-> BoolVal(v[2])]>>] :
        v \in {<<0, FALSE>>, <<50, TRUE>>}}

\* no run of fraud_check.main came before
NoEarlier == [now |-> NaVal, report |-> <<>>]

\* some key occurs on two rows of the table
HasDuplicateKey(rows, k) ==
    \E i, j \in 1..Len(rows) : i # j /\ KeyEq(rows[i][k], rows[j][k])

-----------------------------------------------------------------------------
(* The state machines.  Each specification starts one of them and leaves    *)
(* the others idle.                                                         *)

IdleId ==
    /\ idRaw = NaVal
    /\ idOnce = NaVal
    /\ idTwice = NaVal
    /\ idPc = "idle"

IdleLogic ==
    /\ row = NoFlags
    /\ verdict = FALSE
    /\ verdict2 = FALSE
    /\ lgPc = "idle"

IdleLocal ==
    /\ ts = NaVal
    /\ tz = NaVal
    /\ local = NaVal
    /\ tlPc = "idle"

IdleSource ==
    /\ source = NaVal
    /\ category = "none"
    /\ scPc = "idle"

IdlePipeline ==
    /\ pc = "idle"
    /\ users = <<>>
    /\ df = <<>>
    /\ cols = {}
    /\ cleaned = <<>>
    /\ joinLog = <<>>
    /\ now = NaVal
    /\ report = <<>>
    /\ earlier = NoEarlier

(* clean_id applied to a column cell, and to its own result *)

InitId ==
    /\ idRaw \in RawIdVals
    /\ idOnce = NaVal
    /\ idTwice = NaVal
    /\ idPc = "raw"
    /\ IdleLogic /\ IdleLocal /\ IdleSource /\ IdlePipeline

\* ref['referrer_id'].apply(clean_id), one cell
CleanOnce ==
    /\ idPc = "raw"
    /\ idOnce' = clean_id(idRaw)
    /\ idPc' = "once"
    /\ UNCHANGED <<idRaw, idTwice>>
    /\ UNCHANGED <<lgVars, tlVars, scVars, ppVars>>

\* the cleaned cell cleaned again
CleanTwice ==
    /\ idPc = "once"
    /\ idTwice' = clean_id(idOnce)
    /\ idPc' = "twice"
    /\ UNCHANGED <<idRaw, idOnce>>
    /\ UNCHANGED <<lgVars, tlVars, scVars, ppVars>>

NextId == CleanOnce \/ CleanTwice

SpecId == InitId /\ [][NextId]_vars

(* check_logic applied to a row of flags, twice *)

InitLogic ==
    /\ row \in Rows
    /\ verdict = FALSE
    /\ verdict2 = FALSE
    /\ lgPc = "flags"
    /\ IdleId /\ IdleLocal /\ IdleSource /\ IdlePipeline

\* df['is_business_logic_valid'] = df.apply(check_logic, axis=1), one row
ApplyLogic ==
    /\ lgPc = "flags"
    /\ verdict' = check_logic(row)
    /\ lgPc' = "applied"
    /\ UNCHANGED <<row, verdict2>>
    /\ UNCHANGED <<idVars, tlVars, scVars, ppVars>>

\* the same row evaluated a second time
ReapplyLogic ==
    /\ lgPc = "applied"
    /\ verdict2' = check_logic(row)
    /\ lgPc' = "reapplied"
    /\ UNCHANGED <<row, verdict>>
    /\ UNCHANGED <<idVars, tlVars, scVars, ppVars>>

NextLogic == ApplyLogic \/ ReapplyLogic

SpecLogic == InitLogic /\ [][NextLogic]_vars

(* get_source_category applied to one referral_source cell *)

InitSource ==
    /\ source \in SourceInputs
    /\ category = "none"
    /\ scPc = "text"
    /\ IdleId /\ IdleLogic /\ IdleLocal /\ IdlePipeline

\* df['referral_source'].apply(get_source_category), one cell
Classify ==
    /\ scPc = "text"
    /\ category' = get_source_category(source)
    /\ scPc' = "classified"
    /\ UNCHANGED source
    /\ UNCHANGED <<idVars, lgVars, tlVars, ppVars>>

NextSource == Classify

SpecSource == InitSource /\ [][NextSource]_vars

(* The pipeline: time.main, then fraud_check.main.  Each input file is    *)
(* drawn where the step that uses it runs; the steps of one main follow   *)
(* each other in the order of the code.                                   *)

InitPipeline ==
    /\ pc = "start"
    /\ users = <<>>
    /\ df = <<>>
    /\ cols = {}
    /\ cleaned = <<>>
    /\ joinLog = <<>>
    /\ now = NaVal
    /\ report = <<>>
    /\ earlier = NoEarlier
    /\ IdleId /\ IdleLogic /\ IdleLocal /\ IdleSource

LogEntry(name, before, after, dup) ==
    [join |-> name, before |-> before, after |-> after, dup |-> dup]

\* time.main steps 1-3: load the referral and user tables, clean the ids,
\* merge the user data for referrer and referee, resolve final_tz
T_MergeUsers(refFiles, userFiles) ==
    /\ pc = "start"
    /\ \E refFile \in refFiles, userFile \in userFiles :
          LET ref == clean_ref([i \in 1..Len(refFile) |-> Enriched(refFile[i])])
              us == clean_users(userFile)
              tzm == tz_map(us)
              m1 == merge_referrer(ref, tzm)
              m2 == merge_referee(m1, tzm)
          IN  /\ users' = us
              /\ df' = fill_final_tz(m2)
              /\ cols' = RefCols \cup {"referrer_tz", "referrer_expiry", "referrer_deleted",
                                       "referee_tz", "final_tz"}
              /\ joinLog' = <<LogEntry("referrer", Len(ref), Len(m1), HasDuplicateKey(us, "user_id")),
                              LogEntry("referee", Len(m1), Len(m2), HasDuplicateKey(us, "user_id"))>>
    /\ pc' = "users_merged"
    /\ UNCHANGED <<cleaned, now, report, earlier>>
    /\ UNCHANGED <<idVars, lgVars, tlVars, scVars>>

\* time.main steps 4-7: merge the transactions when the table was loaded and
\* is not empty, convert the times, initcap, save referrals_cleaned.csv
T_MergeTransAndSave(transFiles) ==
    /\ pc = "users_merged"
    /\ \E transFile \in transFiles :
          LET tr == clean_trans(transFile.rows)
              merges == tr # <<>>
              m == IF merges THEN merge_trans(df, tr) ELSE df
              cs == IF merges
                    THEN cols \cup {"transaction_status", "transaction_type", "transaction_at"}
                    ELSE cols
              cs2 == cs \cup {"referral_at_local"}
                        \cup (IF "transaction_at" \in cs THEN {"transaction_at_local"} ELSE {})
          IN  /\ cleaned' = initcap_columns(time_conversion(m, cs), cs2)
              /\ cols' = cs2
              /\ joinLog' = IF merges
                            THEN Append(joinLog, LogEntry("transaction", Len(df), Len(m),
                                                          HasDuplicateKey(tr, "transaction_id")))
                            ELSE joinLog
    /\ users' = <<>>
    /\ df' = <<>>
    /\ pc' = "cleaned"
    /\ UNCHANGED <<now, report, earlier>>
    /\ UNCHANGED <<idVars, lgVars, tlVars, scVars>>

\* fraud_check.main steps 1-2: load the cleaned file, rebuild the category,
\* merge the status names
F_MergeStatus(statusFiles) ==
    /\ pc = "cleaned"
    /\ \E statusFile \in statusFiles :
          LET d0 == add_category(read_cleaned(cleaned), cols)
              merges == statusFile.exists /\ statusFile.described
              m == IF merges THEN merge_status(d0, statusFile.rows) ELSE d0
          IN  /\ df' = IF merges THEN m
                       ELSE [i \in 1..Len(m) |-> [m[i] EXCEPT !.status_name = StrVal(T_Unknown)]]
              /\ joinLog' = IF merges
                            THEN Append(joinLog, LogEntry("status", Len(d0), Len(m),
                                                          HasDuplicateKey(statusFile.rows, "id")))
                            ELSE joinLog
    /\ cols' = cols \cup {"referral_source_category", "status_name"}
    /\ pc' = "status_merged"
    /\ UNCHANGED <<users, cleaned, now, report, earlier>>
    /\ UNCHANGED <<idVars, lgVars, tlVars, scVars>>

\* fraud_check.main steps 3 and 4 (reward_value): merge the rewards when the
\* file exists and has the join key, then default the reward value to 0
F_MergeRewards(rewardFiles) ==
    /\ pc = "status_merged"
    /\ \E rewardFile \in rewardFiles :
          LET merges == rewardFile.exists /\ rewardFile.key = "referral_id"
              m == IF merges THEN merge_rewards(df, rewardFile.rows) ELSE df
          IN  /\ df' = [i \in 1..Len(m) |->
                          [m[i] EXCEPT !.reward_value = IF pd_isna(@) THEN IntVal(0) ELSE @]]
              /\ cols' = cols \cup {"reward_value"}
                              \cup (IF merges THEN {"is_reward_granted"} ELSE {})
              /\ joinLog' = IF merges
                            THEN Append(joinLog, LogEntry("reward", Len(df), Len(m),
                                                          HasDuplicateKey(rewardFile.rows, "referral_id")))
                            ELSE joinLog
    /\ pc' = "rewards_merged"
    /\ UNCHANGED <<users, cleaned, now, report, earlier>>
    /\ UNCHANGED <<idVars, lgVars, tlVars, scVars>>

\* fraud_check.main steps 4-6: the flags, check_logic on every row, the
\* report.  Indexing a column the DataFrame lacks raises KeyError, which
\* nothing catches: the run ends without a report
F_FlagsAndReport(dates) ==
    /\ pc = "rewards_merged"
    /\ \E today \in dates :
          /\ now' = today
          /\ IF FlagCols \subseteq cols
             THEN /\ df' = [i \in 1..Len(df) |-> judge_row(df[i], cols, today)]
                  /\ report' = final_df(df')
                  /\ cols' = cols \cup FlagNames \cup {"is_business_logic_valid"}
                  /\ pc' = "reported"
             ELSE /\ pc' = "KeyError"
                  /\ UNCHANGED <<df, cols, report>>
    /\ UNCHANGED <<users, cleaned, joinLog, earlier>>
    /\ UNCHANGED <<idVars, lgVars, tlVars, scVars>>

\* timezone_cinversion.main: load, clean the ids, merge the timezones of
\* referrer and referee, convert, classify, drop the rows without local time
Z_Main(refFiles, userFiles) ==
    /\ pc = "start"
    /\ \E refFile \in refFiles, userFile \in userFiles :
          LET ref == clean_ref_users([i \in 1..Len(refFile) |-> Enriched(refFile[i])])
              us == clean_users(userFile)
              tzm == tz_map_conversion(us)
              m1 == merge_referrer(ref, tzm)
              m2 == merge_referee(m1, tzm)
              m3 == fill_final_tz(m2)
              done == [i \in 1..Len(m3) |-> convert_row(m3[i])]
          IN  /\ users' = us
              /\ df' = dropna(done, "referral_at_local")
              /\ joinLog' = <<LogEntry("referrer", Len(ref), Len(m1), HasDuplicateKey(us, "user_id")),
                              LogEntry("referee", Len(m1), Len(m2), HasDuplicateKey(us, "user_id"))>>
    /\ cols' = RefCols \cup {"referrer_tz", "referee_tz", "final_tz", "referral_at_local",
                             "referral_source_category"}
    /\ pc' = "converted"
    /\ UNCHANGED <<cleaned, now, report, earlier>>
    /\ UNCHANGED <<idVars, lgVars, tlVars, scVars>>

NextPipeline ==
    \/ T_MergeUsers(RefFiles, UserFiles)
    \/ T_MergeTransAndSave(TransFiles)
    \/ F_MergeStatus(StatusFiles)
    \/ F_MergeRewards(RewardFiles)
    \/ F_FlagsAndReport(NowDates)
    \/ Z_Main(RefFiles, UserFiles)

SpecPipeline == InitPipeline /\ [][NextPipeline]_vars

(* to_local applied to one (timestamp, zone) pair *)

InitLocal ==
    /\ ts \in TsInputs
    /\ tz \in TzInputs
    /\ local = NaVal
    /\ tlPc = "args"
    /\ IdleId /\ IdleLogic /\ IdleSource /\ IdlePipeline

\* one element of [to_local(ts, tz) for ts, tz in zip(...)]
ToLocal ==
    /\ tlPc = "args"
    /\ local' = to_local(ts, tz)
    /\ tlPc' = "returned"
    /\ UNCHANGED <<ts, tz>>
    /\ UNCHANGED <<idVars, lgVars, scVars, ppVars>>

(* to_local on its own, or inside a run of time.main: the initial state  *)
(* is one or the other                                                    *)

InitLocalOrTime == InitLocal \/ InitPipeline

NextLocal ==
    \/ ToLocal
    \/ T_MergeUsers(RefFiles, UserFiles)
    \/ T_MergeTransAndSave(SampleTransFiles)

SpecLocal == InitLocalOrTime /\ [][NextLocal]_vars

(* fraud_check.main run again on the same files with another reference   *)
(* date: the flags, the verdicts and the report are computed anew, the    *)
(* report file is overwritten                                             *)
F_Rerun(dates) ==
    /\ pc = "reported"
    /\ \E today \in dates :
          /\ now' = today
          /\ df' = [i \in 1..Len(df) |-> judge_row(df[i], cols, today)]
          /\ report' = final_df(df')
    /\ earlier' = [now |-> now, report |-> report]
    /\ UNCHANGED <<pc, users, cols, cleaned, joinLog>>
    /\ UNCHANGED <<idVars, lgVars, tlVars, scVars>>

NextRerun ==
    \/ T_MergeUsers(RefFiles, SampleUserFiles)
    \/ T_MergeTransAndSave(SampleTransFiles)
    \/ F_MergeStatus(RerunStatusFiles)
    \/ F_MergeRewards(RerunRewardFiles)
    \/ F_FlagsAndReport(RerunDates)
    \/ F_Rerun(RerunDates)

SpecRerun == InitPipeline /\ [][NextRerun]_vars

(* The same pipeline with every referral and reward file, and one sample   *)
(* of each other table                                                     *)

NextRewards ==
    \/ T_MergeUsers(RefFiles, SampleUserFiles)
    \/ T_MergeTransAndSave(SampleTransFiles)
    \/ F_MergeStatus(SampleStatusFiles)
    \/ F_MergeRewards(RewardFiles)
    \/ F_FlagsAndReport(NowDates)

SpecRewards == InitPipeline /\ [][NextRewards]_vars

-----------------------------------------------------------------------------
(* Claims *)

(* C1: for every combination of the eleven flags exactly one rule is the
   first whose condition holds, the verdict is that rule's value, and a
   second evaluation of the same row returns the same verdict *)
C1_TotalDeterministic ==
    /\ lgPc \in {"applied", "reapplied"} =>
          /\ Cardinality(FirstRules(row)) = 1
          /\ \A k \in FirstRules(row) : verdict = RuleVerdict(k)
    /\ lgPc = "reapplied" => verdict2 = verdict

\* rule 2 decides a row that is also flagged is_success, and it was evaluated twice
C1_Witness ==
    /\ lgPc = "reapplied"
    /\ FirstRules(row) = {2}
    /\ row["is_success"]
    /\ verdict

(* C2: clean_id is idempotent: cleaning a cleaned identifier changes nothing *)
C2_Idempotent == idPc = "twice" => idTwice = idOnce

(* C3: a cleaned identifier is missing, or a text that is not empty and is
   not "nan" or "null" in any letter case *)
C3_NeverNanNullEmpty ==
    idPc \in {"once", "twice"} =>
        \/ idOnce = NaVal
        \/ /\ idOnce.kind = "str"
           /\ Lower(idOnce.s) \notin {T_nan, T_null, <<>>}

\* the flags computed from the transaction columns
TxFlags == {"has_trans_id", "is_trans_paid", "is_trans_new", "tx_after_ref", "same_month"}

(* C4: when the transaction table could not be loaded, so that the cleaned
   table has no transaction_status column, fraud_check.main still ends with
   the final report written, every transaction-dependent flag false *)
C4_ReportWithoutTransactions ==
    (pc \in {"reported", "KeyError"} /\ "transaction_status" \notin cols) =>
        /\ pc = "reported"
        /\ Len(report) = Len(df)
        /\ \A i \in 1..Len(df) : \A f \in TxFlags : ~df[i].flags[f]

UserJoins == {"referrer", "referee", "transaction", "status"}

(* C5: each of the referrer, referee, transaction and status joins leaves
   the number of rows as it was before the join *)
C5_JoinsKeepRowCount ==
    \A i \in 1..Len(joinLog) :
        joinLog[i].join \in UserJoins => joinLog[i].after = joinLog[i].before

(* C6: the reward join leaves the number of rows as it was before the join,
   also for a reward table where a join key occurs on several rows *)
C6_RewardJoinKeepsRowCount ==
    \A i \in 1..Len(joinLog) :
        joinLog[i].join = "reward" => joinLog[i].after = joinLog[i].before

\* rewards with a duplicated join key were merged into a table with rows
C6_Witness ==
    \E i \in 1..Len(joinLog) :
        /\ joinLog[i].join = "reward"
        /\ joinLog[i].dup
        /\ joinLog[i].before >= 1
        /\ joinLog[i].after = joinLog[i].before

\* the referrer of the row is marked deleted
MarkedDeleted(r) == eq_bool(r.referrer_deleted, TRUE) \/ Lower(str(r.referrer_deleted)) = T_true

(* C7: is_account_active is true for every row whose referrer is not marked
   deleted, a row without deleted flag included, and false otherwise *)
C7_AccountActiveUnlessDeleted ==
    pc = "reported" =>
        \A i \in 1..Len(df) : df[i].flags["is_account_active"] = ~MarkedDeleted(df[i])

\* the timezones the user table holds for an id
TimezonesOf(id) ==
    {users[j].timezone_homeclub : j \in {k \in 1..Len(users) :
        /\ ~pd_isna(id)
        /\ users[k].user_id = id
        /\ ~pd_isna(users[k].timezone_homeclub)}}

(* C8: final_tz is the referrer's timezone when the user table holds one for
   the referrer id, else the referee's when it holds one for the referee id,
   else missing *)
C8_FinalTz ==
    pc = "users_merged" =>
        \A i \in 1..Len(df) :
            IF TimezonesOf(df[i].referrer_id) # {}
            THEN df[i].final_tz \in TimezonesOf(df[i].referrer_id)
            ELSE IF TimezonesOf(df[i].referee_id) # {}
            THEN df[i].final_tz \in TimezonesOf(df[i].referee_id)
            ELSE df[i].final_tz = NaVal

\* to_local has to return the missing value for these arguments
MissingArgs(t, z) ==
    \/ t.kind = "na"
    \/ z.kind = "na"
    \/ (z.kind = "str" /\ z.s \in {T_nan, T_NaN, T_NAN})

(* C9: to_local returns the missing value whenever the timestamp is missing,
   or the zone is missing or is the text "nan" in any letter case; so in the
   file time.main saves, a row without final_tz has a missing
   referral_at_local and a missing transaction_at_local *)
C9_MissingInMissingOut ==
    /\ (tlPc = "returned" /\ MissingArgs(ts, tz)) => local = NaVal
    /\ pc = "cleaned" =>
          \A i \in 1..Len(cleaned) :
              /\ MissingArgs(cleaned[i].referral_at, cleaned[i].final_tz)
                    => cleaned[i].referral_at_local = NaVal
              /\ MissingArgs(cleaned[i].transaction_at, cleaned[i].final_tz)
                    => cleaned[i].transaction_at_local = NaVal

\* a present timestamp with the zone text "NaN" came back missing
C9_Witness ==
    /\ tlPc = "returned"
    /\ ts.kind = "ts"
    /\ tz = StrVal(T_NaN)
    /\ local = NaVal

\* the text holds one of the Online / Offline keywords, letter case ignored
HasOnline(src) == \E x \in OnlineKeywords : Contains(Lower(str(src)), x)
HasOffline(src) == \E x \in OfflineKeywords : Contains(Lower(str(src)), x)

(* C10: a text with an Online keyword is Online even when it also has an
   Offline keyword; with Offline keywords only it is Offline; with neither
   it is Other *)
C10_OnlineFirst ==
    scPc = "classified" =>
        /\ category \in {"Online", "Offline", "Other"}
        /\ HasOnline(source) => category = "Online"
        /\ (HasOffline(source) /\ ~HasOnline(source)) => category = "Offline"
        /\ (~HasOffline(source) /\ ~HasOnline(source)) => category = "Other"

\* a text with a keyword of each set, the Online one spelt in capitals across
\* two words, was classified Online
C10_Witness ==
    /\ scPc = "classified"
    /\ source = StrVal(<<"L", "e", "a", "d">> \o <<"w", "e">> \o <<"b">>)
    /\ category = "Online"

\* the row satisfies the condition of rule 5 or 6 and that of rule 3 or 4
Overlap56With34(r) ==
    /\ RuleCond(5, r) \/ RuleCond(6, r)
    /\ RuleCond(3, r) \/ RuleCond(4, r)

(* C11, as stated: the decision table a row is judged by has some
   combination of the eleven flags that satisfies the condition of rule 5
   or of rule 6 and also that of rule 3 or of rule 4 *)
C11_Rules56Overlap34 ==
    lgPc \in {"applied", "reapplied"} => \E r \in Rows : Overlap56With34(r)

(* C11, amended: no combination of the eleven flags satisfies the condition
   of rule 5 or 6 together with that of rule 3 or 4, since rules 3 and 4
   ask for a reward and rules 5 and 6 for its absence; a row that satisfies
   rule 5 or 6 and an earlier rule satisfies rule 2, whose verdict it gets *)
C11_Rules56Disjoint34 ==
    lgPc \in {"applied", "reapplied"} =>
        /\ ~Overlap56With34(row)
        /\ \A k \in {5, 6} :
              (RuleCond(k, row) /\ k \notin FirstRules(row))
                  => (FirstRules(row) \subseteq {2, 5} /\ (RuleCond(2, row) => verdict))

\* a row satisfying rules 2, 5 and 6 at once was judged, and rule 2 decided
C11_Witness ==
    /\ lgPc = "applied"
    /\ RuleCond(2, row) /\ RuleCond(5, row) /\ RuleCond(6, row)
    /\ FirstRules(row) = {2}
    /\ verdict

(* C12: the verdict of check_logic is TRUE exactly when the ten flags of
   rule 1 all hold, or the row is pending/failed and has no reward; so the
   rules after rule 2 change no verdict, and a pending/failed row without
   reward is valid whatever its transaction and success flags are *)
C12_TwoClauseFormula ==
    lgPc \in {"applied", "reapplied"} =>
        verdict = (\/ /\ row["has_reward"] /\ row["is_success"] /\ row["has_trans_id"]
                      /\ row["is_trans_paid"] /\ row["is_trans_new"] /\ row["tx_after_ref"]
                      /\ row["same_month"] /\ row["is_member_active"]
                      /\ row["is_account_active"] /\ row["is_granted"]
                   \/ row["is_pending_or_failed"] /\ ~row["has_reward"])

\* a pending/failed row without reward, with a paid transaction after the
\* referral and the success flag, was judged valid
C12_Witness ==
    /\ lgPc = "applied"
    /\ row["is_pending_or_failed"] /\ ~row["has_reward"]
    /\ row["has_trans_id"] /\ row["is_trans_paid"] /\ row["tx_after_ref"]
    /\ row["is_success"]
    /\ verdict = TRUE

\* the flags satisfy rule 2: pending or failed, and no reward
Rule2Row(f) == f["is_pending_or_failed"] /\ ~f["has_reward"]

(* C13: when fraud_check.main is run again on the same rows with a
   reference date that is not earlier, no row goes from INVALID to VALID,
   and a row that satisfies rule 2 is VALID in both runs *)
C13_MonotoneInDate ==
    (pc = "reported" /\ earlier.now.kind = "ts" /\ earlier.now.n <= now.n) =>
        /\ Len(report) = Len(earlier.report)
        /\ \A i \in 1..Len(report) :
              /\ report[i].is_business_logic_valid
                    => earlier.report[i].is_business_logic_valid
              /\ Rule2Row(df[i].flags) =>
                    /\ report[i].is_business_logic_valid
                    /\ earlier.report[i].is_business_logic_valid

\* a row that was VALID while the membership ran is INVALID in the run
\* after the expiry date
C13_Witness ==
    /\ pc = "reported"
    /\ earlier.now.kind = "ts"
    /\ earlier.now.n < now.n
    /\ \E i \in 1..Len(report) :
          /\ earlier.report[i].is_business_logic_valid
          /\ ~report[i].is_business_logic_valid
          /\ ~df[i].flags["is_member_active"]

====
